---------------------------- MODULE Spec2Model ----------------------------
(***************************************************************************)
(* A model of the SMS ingestion pipeline of momo-backend                   *)
(* (src/src/process_sms.ts): the field extractors, the classifier, the     *)
(* counterparty resolver, the record built for each message, and the       *)
(* batch orchestrator main(); and of the startup of the server             *)
(* (src/src/index.ts): populateDB() and start(); and of respond()          *)
(* (src/src/utilities.ts).                                                 *)
(*                                                                         *)
(* Representation.                                                         *)
(*   - A JavaScript string is a sequence of one-character strings; a       *)
(*     character outside ASCII is the name of its code point ("U+00A0").   *)
(*   - A value that may be null/undefined is a sequence of length 0 or 1:  *)
(*     None is null/undefined, Some(x) is the value x.                     *)
(*   - A Date is a record [valid, t]; an Invalid Date has valid = FALSE,   *)
(*     and t is <<year, month, day, hour, minute, second>> in UTC, the    *)
(*     time zone of the process; t does not keep the milliseconds.        *)
(*   - The regular expressions are modelled by what they match, with the   *)
(*     leftmost, greedy, backtracking semantics of JavaScript.             *)
(*                                                                         *)
(* Environment.  The persistence store is external: every Save             *)
(* (Transaction.create) resolves truthy, resolves falsy, or rejects, and   *)
(* the schema sync that main() awaits resolves or rejects, chosen by the   *)
(* environment.  The write of the report file is taken to succeed.  The    *)
(* sync that populateDB() starts succeeds too, at a time of its own;       *)
(* Transaction.count() rejects when the table does not exist and resolves  *)
(* with the number of rows else.  An action is one turn of the event loop: *)
(* main() is cut at each of its awaits.                                    *)
(*                                                                         *)
(* Specifications.  Spec is one run of main(); SpecFair is Spec with every *)
(* step taken in the end; SpecBuild builds the record of one message;      *)
(* SpecRerun runs main() again on the same store; SpecServer is start(),   *)
(* with restarts of the server; SpecRespond is one call of respond().      *)
(***************************************************************************)
EXTENDS Integers, Sequences, FiniteSets, TLC

--------------------------------------------------------------------------
(* Optional values, sets of numbers *)

None == <<>>

Some(x) == <<x>>

MinOf(S) == CHOOSE x \in S : \A y \in S : x <= y

MaxOf(S) == CHOOSE x \in S : \A y \in S : x >= y

--------------------------------------------------------------------------
(* Character classes of the regular expressions *)

Digits == {"0", "1", "2", "3", "4", "5", "6", "7", "8", "9"}

\* \s of a JavaScript regular expression, which is also what String.trim strips:
\* the white space and the line terminators of ECMAScript.  A character outside
\* ASCII is written as the name of its code point
WhiteSpace == {" ", "\t", "\n", "\r", "\f", "U+000B", "U+00A0", "U+1680", "U+2000",
               "U+2001", "U+2002", "U+2003", "U+2004", "U+2005", "U+2006", "U+2007",
               "U+2008", "U+2009", "U+200A", "U+2028", "U+2029", "U+202F", "U+205F",
               "U+3000", "U+FEFF"}

LowerAlpha == <<"a", "b", "c", "d", "e", "f", "g", "h", "i", "j", "k", "l", "m", "n", "o", "p", "q", "r", "s", "t", "u", "v", "w", "x", "y", "z">>

UpperAlpha == <<"A", "B", "C", "D", "E", "F", "G", "H", "I", "J", "K", "L", "M", "N", "O", "P", "Q", "R", "S", "T", "U", "V", "W", "X", "Y", "Z">>

\* \w of a JavaScript regular expression
WordChars == Digits \cup {"_"} \cup {LowerAlpha[k] : k \in 1..26} \cup {UpperAlpha[k] : k \in 1..26}

\* the lower-case form of a character (the /i flag compares these)
ToLower(c) == IF \E k \in 1..26 : UpperAlpha[k] = c
              THEN LowerAlpha[CHOOSE k \in 1..26 : UpperAlpha[k] = c]
              ELSE c

DigitVal(c) == CASE c = "0" -> 0 [] c = "1" -> 1 [] c = "2" -> 2 [] c = "3" -> 3
                 [] c = "4" -> 4 [] c = "5" -> 5 [] c = "6" -> 6 [] c = "7" -> 7
                 [] c = "8" -> 8 [] c = "9" -> 9

--------------------------------------------------------------------------
(* String primitives *)

\* the literal p occurs in s at position i
MatchAt(s, p, i) == /\ i >= 1
                    /\ i + Len(p) - 1 <= Len(s)
                    /\ \A k \in 1..Len(p) : s[i + k - 1] = p[k]

\* the same, ignoring letter case (a literal under the /i flag)
MatchAtI(s, p, i) == /\ i >= 1
                     /\ i + Len(p) - 1 <= Len(s)
                     /\ \A k \in 1..Len(p) : ToLower(s[i + k - 1]) = ToLower(p[k])

\* /p/.test(s) for a literal p
Test(s, p) == \E i \in 1..Len(s) : MatchAt(s, p, i)

\* /p/i.test(s) for a literal p
TestI(s, p) == \E i \in 1..Len(s) : MatchAtI(s, p, i)

\* the last position of the longest run of characters of class C that starts
\* at position i (i - 1 when the run is empty): a greedy C*
SpanEnd(s, i, C) == LET stops == {k \in i..Len(s) : s[k] \notin C}
                    IN  IF stops = {} THEN Len(s) ELSE MinOf(stops) - 1

\* s.replace(/,/g, "")
StripCommas(s) == SelectSeq(s, LAMBDA c : c # ",")

\* s.trim()
Trim(s) == LET keep == {k \in 1..Len(s) : s[k] \notin WhiteSpace}
           IN  IF keep = {} THEN <<>> ELSE SubSeq(s, MinOf(keep), MaxOf(keep))

NaN == 0 - 1

\* parseInt(s, 10) of a string of digits; NaN when it does not start with a digit
RECURSIVE DigitsValue(_)
DigitsValue(s) == IF s = <<>> THEN 0
                  ELSE 10 * DigitsValue(SubSeq(s, 1, Len(s) - 1)) + DigitVal(s[Len(s)])

parseInt(s) == IF s = <<>> \/ s[1] \notin Digits THEN NaN
               ELSE DigitsValue(SubSeq(s, 1, SpanEnd(s, 1, Digits)))

\* x || d for a number x: 0 and NaN are falsy
OrElse(x, d) == IF x = None \/ x = Some(0) \/ x = Some(NaN) THEN d ELSE x[1]

--------------------------------------------------------------------------
(* extractAmount: input.replace(/,/g, "").match(/(\d+)\s*RWF/) *)

RWF == <<"R", "W", "F">>

AmountEnd(s, i) == SpanEnd(s, i, Digits)

AmountAt(s, i) == /\ s[i] \in Digits
                  /\ MatchAt(s, RWF, SpanEnd(s, AmountEnd(s, i) + 1, WhiteSpace) + 1)

extractAmount(input) ==
    IF input = None \/ input = Some(<<>>) THEN None
    ELSE LET s == StripCommas(input[1])
             at == {i \in 1..Len(s) : AmountAt(s, i)}
         IN  IF at = {} THEN None
             ELSE Some(parseInt(SubSeq(s, MinOf(at), AmountEnd(s, MinOf(at)))))

--------------------------------------------------------------------------
(* new Date(string): the date parser of V8, with the clock of the process on
   UTC.  A string is cut into tokens; the ES5 form YYYY-MM-DD[THH:mm[:ss]] is
   tried first, and what it leaves is read by the legacy parser *)

InvalidDate == [valid |-> FALSE, t |-> <<0, 0, 0, 0, 0, 0>>]

\* the end of the input for the tokenizer: the character NUL
NUL == "U+0000"

\* the ASCII characters below "A" that are no digit
BelowAlpha == {"U+0000", "U+0001", "U+0002", "U+0003", "U+0004", "U+0005", "U+0006",
               "U+0007", "U+0008", "U+000E", "U+000F", "U+0010", "U+0011", "U+0012",
               "U+0013", "U+0014", "U+0015", "U+0016", "U+0017", "U+0018", "U+0019",
               "U+001A", "U+001B", "U+001C", "U+001D", "U+001E", "U+001F",
               " ", "\t", "\n", "\r", "\f", "U+000B", "!", "\"", "#", "$", "%", "&",
               "'", "(", ")", "*", "+", ",", "-", ".", "/", ":", ";", "<", "=", ">",
               "?", "@"}

\* a character of a word: "A" or above, and no white space (the two line
\* terminators above "A" count as characters of a word)
IsWordChar(c) == /\ c \notin Digits
                 /\ c \notin BelowAlpha
                 /\ c \notin WhiteSpace \ {"U+2028", "U+2029"}

EndTok == [k |-> "end", n |-> 0, len |-> 0, c |-> ""]

NumTok(n, len) == [k |-> "num", n |-> n, len |-> len, c |-> ""]

SymTok(c) == [k |-> "sym", n |-> 0, len |-> 1, c |-> c]

KwTok(type, value, len) == [k |-> "kw", n |-> value, len |-> len, c |-> type]

WsTok == [k |-> "ws", n |-> 0, len |-> 0, c |-> ""]

UnkTok == [k |-> "unk", n |-> 0, len |-> 0, c |-> ""]

MonthNames == <<<<"j", "a", "n">>, <<"f", "e", "b">>, <<"m", "a", "r">>, <<"a", "p", "r">>, <<"m", "a", "y">>, <<"j", "u", "n">>,
                <<"j", "u", "l">>, <<"a", "u", "g">>, <<"s", "e", "p">>, <<"o", "c", "t">>, <<"n", "o", "v">>, <<"d", "e", "c">>>>

ZoneNames == <<<<"u", "t">>, <<"u", "t", "c">>, <<"z">>, <<"g", "m", "t">>, <<"c", "d", "t">>, <<"c", "s", "t">>, <<"e", "d", "t">>,
               <<"e", "s", "t">>, <<"m", "d", "t">>, <<"m", "s", "t">>, <<"p", "d", "t">>, <<"p", "s", "t">>>>

ZoneHours == <<0, 0, 0, 0, 0 - 5, 0 - 6, 0 - 4, 0 - 5, 0 - 6, 0 - 7, 0 - 7, 0 - 8>>

\* the keyword a word is: a month by its first three letters, the others by
\* the whole word, letter case ignored
KeywordOf(w) ==
    LET lw == [k \in 1..Len(w) |-> ToLower(w[k])]
        pre == SubSeq(lw, 1, IF Len(lw) < 3 THEN Len(lw) ELSE 3)
    IN  IF \E m \in 1..12 : MonthNames[m] = pre
        THEN KwTok("month", CHOOSE m \in 1..12 : MonthNames[m] = pre, Len(w))
        ELSE IF lw = <<"a", "m">> THEN KwTok("ampm", 0, Len(w))
        ELSE IF lw = <<"p", "m">> THEN KwTok("ampm", 12, Len(w))
        ELSE IF \E z \in 1..12 : ZoneNames[z] = lw
        THEN KwTok("zone", ZoneHours[CHOOSE z \in 1..12 : ZoneNames[z] = lw], Len(w))
        ELSE IF lw = <<"t">> THEN KwTok("tsep", 0, Len(w))
        ELSE KwTok("none", 0, Len(w))

\* the value of a run of digits: leading zeros dropped, nine digits kept
NumeralValue(ds) ==
    LET nz == {k \in 1..Len(ds) : ds[k] # "0"}
        sig == IF nz = {} THEN <<>> ELSE SubSeq(ds, MinOf(nz), Len(ds))
    IN  DigitsValue(SubSeq(sig, 1, IF Len(sig) < 9 THEN Len(sig) ELSE 9))

\* the position after a parenthesised text that starts at q
RECURSIVE ParenSkip(_, _, _)
ParenSkip(s, q, balance) ==
    LET b == IF s[q] = ")" THEN balance - 1
             ELSE IF s[q] = "(" THEN balance + 1 ELSE balance
    IN  IF b > 0 /\ q + 1 <= Len(s) /\ s[q + 1] # NUL THEN ParenSkip(s, q + 1, b)
        ELSE q + 1

\* the milliseconds a run of digits after "." stands for: its first three
\* digits, out of the nine that are kept (ReadMilliseconds)
ReadMilliseconds(tok) ==
    LET len == IF tok.len > 9 THEN 9 ELSE tok.len
        factor == CASE len = 4 -> 10 [] len = 5 -> 100 [] len = 6 -> 1000
                    [] len = 7 -> 10000 [] len = 8 -> 100000 [] OTHER -> 1000000
    IN  IF tok.len = 1 THEN tok.n * 100
        ELSE IF tok.len = 2 THEN tok.n * 10
        ELSE IF tok.len > 3 THEN tok.n \div factor
        ELSE tok.n

\* the tokens of s from position p on; a NUL is the end of the input
RECURSIVE DateTokens(_, _)
DateTokens(s, p) ==
    IF p > Len(s) \/ s[p] = NUL THEN <<>>
    ELSE IF s[p] \in Digits
    THEN LET e == SpanEnd(s, p, Digits)
         IN  <<NumTok(NumeralValue(SubSeq(s, p, e)), e - p + 1)>> \o DateTokens(s, e + 1)
    ELSE IF s[p] \in {":", "-", "+", ".", ")"}
    THEN <<SymTok(s[p])>> \o DateTokens(s, p + 1)
    ELSE IF IsWordChar(s[p])
    THEN LET stops == {q \in p..Len(s) : ~IsWordChar(s[q])}
             e == IF stops = {} THEN Len(s) ELSE MinOf(stops) - 1
         IN  <<KeywordOf(SubSeq(s, p, e))>> \o DateTokens(s, e + 1)
    ELSE IF s[p] \in WhiteSpace
    THEN <<WsTok>> \o DateTokens(s, p + 1)
    ELSE IF s[p] = "("
    THEN <<UnkTok>> \o DateTokens(s, ParenSkip(s, p, 0))
    ELSE <<UnkTok>> \o DateTokens(s, p + 1)

TokAt(toks, p) == IF p >= 1 /\ p <= Len(toks) THEN toks[p] ELSE EndTok

IsSym(tok, c) == tok.k = "sym" /\ tok.c = c

IsSign(tok) == IsSym(tok, "+") \/ IsSym(tok, "-")

IsFixedNumber(tok, len) == tok.k = "num" /\ tok.len = len

IsKeywordZ(tok) == tok.k = "kw" /\ tok.c = "zone" /\ tok.len = 1

IsDay(x) == 1 <= x /\ x <= 31

IsMonth(x) == 1 <= x /\ x <= 12

IsHour(x) == 0 <= x /\ x <= 23

IsMinute(x) == 0 <= x /\ x <= 59

IsSecond(x) == 0 <= x /\ x <= 59

IsMillisecond(x) == 0 <= x /\ x <= 999

\* what the parser has read: the numbers of the day (at most 3), the month
\* given by name (0: none), the numbers of the time (at most 4), the hour offset
\* of AM/PM and the time zone (-1: none; sign 0: none)
NothingRead == [ok |-> TRUE, day |-> <<>>, named |-> 0, iso |-> FALSE, time |-> <<>>,
                hoff |-> -1, tzSign |-> 0, tzH |-> -1, tzM |-> -1, hasNum |-> FALSE]

Failed(st) == [st EXCEPT !.ok = FALSE]

PadTo(seq, n, v) == [k \in 1..(IF Len(seq) > n THEN Len(seq) ELSE n) |->
                        IF k <= Len(seq) THEN seq[k] ELSE v]

TimeExpecting(time, n) == \/ Len(time) = 1 /\ IsMinute(n)
                          \/ Len(time) = 2 /\ IsSecond(n)
                          \/ Len(time) = 3 /\ IsMillisecond(n)

TzExpecting(st, n) == st.tzH # -1 /\ st.tzM = -1 /\ IsMinute(n)

TzIsUTC(st) == st.tzH = 0 /\ st.tzM = 0

TzSet(st, hours) == [st EXCEPT !.tzSign = IF hours < 0 THEN -1 ELSE 1,
                               !.tzH = IF hours < 0 THEN 0 - hours ELSE hours,
                               !.tzM = 0]

\* the legacy parser, from token p on
RECURSIVE LegacyParse(_, _, _)
LegacyParse(toks, p, st) ==
    IF p > Len(toks) \/ ~st.ok THEN st
    ELSE LET tok == toks[p]
             nxt == TokAt(toks, p + 1)
         IN
         IF tok.k = "num"
         THEN LET n == tok.n
                  st1 == [st EXCEPT !.hasNum = TRUE]
                  dot == IsSym(nxt, ".")
                  q == IF dot THEN p + 2 ELSE p + 1
              IN  IF IsSym(nxt, ":")
                  THEN IF IsSym(TokAt(toks, p + 2), ":")
                       THEN IF st.time # <<>> THEN Failed(st)
                            ELSE LegacyParse(toks, p + 3, [st1 EXCEPT !.time = <<n, 0>>])
                       ELSE IF Len(st.time) >= 4 THEN Failed(st)
                            ELSE LegacyParse(toks,
                                             IF IsSym(TokAt(toks, p + 2), ".")
                                             THEN p + 3 ELSE p + 2,
                                             [st1 EXCEPT !.time = Append(@, n)])
                  ELSE IF dot /\ TimeExpecting(st.time, n)
                  THEN IF TokAt(toks, q).k # "num" THEN Failed(st)
                       ELSE LegacyParse(toks, q + 1,
                                [st1 EXCEPT !.time =
                                    SubSeq(PadTo(st.time \o
                                                 <<n, ReadMilliseconds(TokAt(toks, q))>>,
                                                 4, 0), 1, 4)])
                  ELSE IF TzExpecting(st, n)
                  THEN LegacyParse(toks, q, [st1 EXCEPT !.tzM = n])
                  ELSE IF TimeExpecting(st.time, n)
                  THEN IF TokAt(toks, q).k \in {"end", "ws"} \/ IsKeywordZ(TokAt(toks, q))
                          \/ IsSign(TokAt(toks, q))
                       THEN LegacyParse(toks, q,
                                [st1 EXCEPT !.time = PadTo(Append(st.time, n), 4, 0)])
                       ELSE Failed(st)
                  ELSE IF Len(st.day) >= 3 THEN Failed(st)
                  ELSE LegacyParse(toks,
                                   IF IsSym(TokAt(toks, q), "-") THEN q + 1 ELSE q,
                                   [st1 EXCEPT !.day = Append(@, n)])
         ELSE IF tok.k = "kw"
         THEN IF tok.c = "ampm" /\ st.time # <<>>
              THEN LegacyParse(toks, p + 1, [st EXCEPT !.hoff = tok.n])
              ELSE IF tok.c = "month"
              THEN LegacyParse(toks, IF IsSym(nxt, "-") THEN p + 2 ELSE p + 1,
                               [st EXCEPT !.named = tok.n])
              ELSE IF tok.c = "zone" /\ st.hasNum
              THEN LegacyParse(toks, p + 1, TzSet(st, tok.n))
              ELSE IF st.hasNum \/ nxt.k = "num" THEN Failed(st)
              ELSE LegacyParse(toks, p + 1, st)
         ELSE IF IsSign(tok) /\ (TzIsUTC(st) \/ st.time # <<>>)
         THEN LET has == nxt.k = "num"
                  n == IF has THEN nxt.n ELSE 0
                  len == IF has THEN nxt.len ELSE 0
                  q == IF has THEN p + 2 ELSE p + 1
                  st1 == [st EXCEPT !.hasNum = TRUE,
                                    !.tzSign = IF tok.c = "-" THEN -1 ELSE 1]
              IN  IF IsSym(TokAt(toks, q), ":")
                  THEN LegacyParse(toks, q, [st1 EXCEPT !.tzH = n, !.tzM = -1])
                  ELSE IF len \in {1, 2}
                  THEN LegacyParse(toks, q, [st1 EXCEPT !.tzH = n, !.tzM = 0])
                  ELSE IF len \in {3, 4}
                  THEN LegacyParse(toks, q, [st1 EXCEPT !.tzH = n \div 100, !.tzM = n % 100])
                  ELSE Failed(st)
         ELSE IF (IsSign(tok) \/ IsSym(tok, ")")) /\ st.hasNum
         THEN Failed(st)
         ELSE LegacyParse(toks, p + 1, st)

\* the ES5 form [+-yy]yyyy[-MM[-DD]][THH:mm[:ss[.sss]][Z|+-hh:mm]]: the result
\* is what was read and the token the legacy parser goes on from (next), or
\* the end (next beyond the tokens)
ES5Year(toks) ==
    LET t1 == TokAt(toks, 1)
        t2 == TokAt(toks, 2)
    IN  IF IsSign(t1)
        THEN IF ~IsFixedNumber(t2, 6)
             THEN [st |-> NothingRead, next |-> 1, more |-> FALSE]
             ELSE IF t1.c = "-" /\ t2.n = 0
             THEN [st |-> NothingRead, next |-> 3, more |-> FALSE]
             ELSE [st |-> [NothingRead EXCEPT
                              !.day = <<IF t1.c = "-" THEN 0 - t2.n ELSE t2.n>>],
                   next |-> 3, more |-> TRUE]
        ELSE IF IsFixedNumber(t1, 4)
        THEN [st |-> [NothingRead EXCEPT !.day = <<t1.n>>], next |-> 2, more |-> TRUE]
        ELSE [st |-> NothingRead, next |-> 1, more |-> FALSE]

\* one more part of the day after a "-": ok(n) is IsMonth or IsDay
ES5DayPart(toks, r, isDay) ==
    LET num == TokAt(toks, r.next + 1)
    IN  IF ~r.more \/ ~IsSym(TokAt(toks, r.next), "-") THEN r
        ELSE IF num.k = "num" /\ IsFixedNumber(num, 2)
                /\ (IF isDay THEN IsDay(num.n) ELSE IsMonth(num.n))
        THEN [r EXCEPT !.st.day = Append(@, num.n), !.next = r.next + 2]
        ELSE [r EXCEPT !.next = r.next + 1, !.more = FALSE]

ES5Day(toks) ==
    LET y == ES5Year(toks)
        m == ES5DayPart(toks, y, FALSE)
    IN  IF m.more /\ m.next = y.next + 2 THEN ES5DayPart(toks, m, TRUE) ELSE m

ES5Finish(st) ==
    [(IF st.tzH = -1 /\ st.time = <<>> THEN TzSet(st, 0) ELSE st) EXCEPT !.iso = TRUE]

\* the time zone of the ES5 form, from token p on, then the end of the input
ES5Zone(toks, p, st) ==
    LET t0 == TokAt(toks, p)
        t1 == TokAt(toks, p + 1)
        t2 == TokAt(toks, p + 2)
        t3 == TokAt(toks, p + 3)
        sign == IF t0.c = "+" THEN 1 ELSE -1
        AtEnd(q, s) == IF q > Len(toks) THEN ES5Finish(s) ELSE Failed(s)
    IN  IF IsKeywordZ(t0) THEN AtEnd(p + 1, TzSet(st, 0))
        ELSE IF IsSign(t0)
        THEN IF IsFixedNumber(t1, 4)
             THEN IF IsHour(t1.n \div 100) /\ IsMinute(t1.n % 100)
                  THEN AtEnd(p + 2, [st EXCEPT !.tzSign = sign, !.tzH = t1.n \div 100,
                                               !.tzM = t1.n % 100])
                  ELSE Failed(st)
             ELSE IF /\ IsFixedNumber(t1, 2) /\ IsHour(t1.n) /\ IsSym(t2, ":")
                     /\ IsFixedNumber(t3, 2) /\ IsMinute(t3.n)
             THEN AtEnd(p + 4, [st EXCEPT !.tzSign = sign, !.tzH = t1.n, !.tzM = t3.n])
             ELSE Failed(st)
        ELSE AtEnd(p, st)

\* the time of the ES5 form, from the token after the "T"
ES5Time(toks, p, st) ==
    LET hh == TokAt(toks, p)
        mm == TokAt(toks, p + 2)
        ss == TokAt(toks, p + 4)
        ms == TokAt(toks, p + 6)
        is24 == hh.n = 24
        Fits(t, okay) == IsFixedNumber(t, 2) /\ okay /\ ~(is24 /\ t.n > 0)
    IN  IF ~(IsFixedNumber(hh, 2) /\ hh.n \in 0..24) \/ ~IsSym(TokAt(toks, p + 1), ":")
           \/ ~Fits(mm, IsMinute(mm.n))
        THEN Failed(st)
        ELSE IF ~IsSym(TokAt(toks, p + 3), ":")
        THEN ES5Zone(toks, p + 3, [st EXCEPT !.time = <<hh.n, mm.n>>])
        ELSE IF ~Fits(ss, IsSecond(ss.n)) THEN Failed(st)
        ELSE IF ~IsSym(TokAt(toks, p + 5), ".")
        THEN ES5Zone(toks, p + 5, [st EXCEPT !.time = <<hh.n, mm.n, ss.n>>])
        ELSE IF ms.k # "num" \/ (is24 /\ ms.n > 0) THEN Failed(st)
        ELSE ES5Zone(toks, p + 7,
                     [st EXCEPT !.time = <<hh.n, mm.n, ss.n, ReadMilliseconds(ms)>>])

\* DateParser::Parse: the ES5 form first, the legacy parser for what is left
ParseTokens(toks) ==
    LET d == ES5Day(toks)
        st == [d.st EXCEPT !.hasNum = d.st.day # <<>>]
    IN  IF ~d.more THEN LegacyParse(toks, d.next, st)
        ELSE IF TokAt(toks, d.next).c = "tsep" /\ TokAt(toks, d.next).k = "kw"
        THEN ES5Time(toks, d.next + 1, st)
        ELSE IF d.next > Len(toks) THEN ES5Finish(st)
        ELSE LegacyParse(toks, d.next, st)

\* DayComposer::Write: year, month and day out of the numbers read, or <<>>
DayWrite(st) ==
    LET c == PadTo(st.day, 3, 1)
        ymd == IF st.named = 0
               THEN IF st.iso \/ ~IsDay(c[1]) THEN <<c[1], c[2], c[3]>>
                    ELSE <<c[3], c[1], c[2]>>
               ELSE IF ~IsDay(c[1]) THEN <<c[1], st.named, c[2]>>
                    ELSE <<c[2], st.named, c[1]>>
        year == IF st.iso THEN ymd[1]
                ELSE IF ymd[1] >= 0 /\ ymd[1] <= 49 THEN ymd[1] + 2000
                ELSE IF ymd[1] >= 50 /\ ymd[1] <= 99 THEN ymd[1] + 1900
                ELSE ymd[1]
    IN  IF st.day # <<>> /\ IsMonth(ymd[2]) /\ IsDay(ymd[3])
        THEN <<year, ymd[2], ymd[3]>> ELSE <<>>

\* TimeComposer::Write: hour, minute, second and millisecond, or <<>>
TimeWrite(st) ==
    LET c == PadTo(st.time, 4, 0)
        hour == IF st.hoff = -1 THEN c[1] ELSE (c[1] % 12) + st.hoff
    IN  IF st.hoff # -1 /\ ~(0 <= c[1] /\ c[1] <= 12) THEN <<>>
        ELSE IF \/ IsHour(hour) /\ IsMinute(c[2]) /\ IsSecond(c[3]) /\ IsMillisecond(c[4])
                \/ hour = 24 /\ c[2] = 0 /\ c[3] = 0 /\ c[4] = 0
        THEN <<hour, c[2], c[3], c[4]>> ELSE <<>>

\* TimeZoneComposer::Write: the offset from UTC in seconds as <<sign, seconds>>,
\* or <<>>.  seconds is hour * 3600 + minute * 60 as an unsigned 32-bit number,
\* computed in halves of 16 bits, and may not exceed 2^31 - 1.  Without a sign
\* the time is local time, which is UTC
TzWrite(st) ==
    LET h == IF st.tzH = -1 THEN 0 ELSE st.tzH
        m == IF st.tzM = -1 THEN 0 ELSE st.tzM
        low == (h % 65536) * 3600 + (m % 65536) * 60
        high == ((h \div 65536) * 3600 + (m \div 65536) * 60 + (low \div 65536)) % 65536
    IN  IF st.tzSign = 0 THEN <<1, 0>>
        ELSE IF high >= 32768 THEN <<>>
        ELSE <<st.tzSign, high * 65536 + (low % 65536)>>

\* the number of the day y-m-d, day 0 being 1970-01-01; a d beyond the end of
\* the month counts on into the next one (MakeDay)
DaysFromCivil(y, m, d) ==
    LET yy == IF m <= 2 THEN y - 1 ELSE y
        era == yy \div 400
        yoe == yy - era * 400
        doy == (153 * (IF m > 2 THEN m - 3 ELSE m + 9) + 2) \div 5 + d - 1
    IN  era * 146097 + yoe * 365 + yoe \div 4 - yoe \div 100 + doy - 719468

\* year, month and day of the day numbered z
CivilFromDays(z) ==
    LET zz == z + 719468
        era == zz \div 146097
        doe == zz - era * 146097
        yoe == (doe - doe \div 1460 + doe \div 36524 - doe \div 146096) \div 365
        doy == doe - (365 * yoe + yoe \div 4 - yoe \div 100)
        mp == (5 * doy + 2) \div 153
        m == IF mp < 10 THEN mp + 3 ELSE mp - 9
    IN  <<yoe + era * 400 + (IF m <= 2 THEN 1 ELSE 0), m, doy - (153 * mp + 2) \div 5 + 1>>

MaxYear == 1000000

MaxDay == 100000000

\* the time value of day, time and offset (MakeDay, MakeTime, MakeDate, less
\* the offset, TimeClip), read back as UTC fields
DateOfFields(ymd, hms, tz) ==
    LET off == tz[1] * tz[2]
        tod == hms[1] * 3600 + hms[2] * 60 + hms[3] - (off % 86400)
        day == DaysFromCivil(ymd[1], ymd[2], ymd[3]) - (off \div 86400) + (tod \div 86400)
        sod == tod % 86400
        civil == CivilFromDays(day)
    IN  IF ymd[1] < 0 - MaxYear \/ ymd[1] > MaxYear THEN InvalidDate
        ELSE IF \/ day < 0 - MaxDay
                \/ day > MaxDay
                \/ day = MaxDay /\ (sod > 0 \/ hms[4] > 0)
        THEN InvalidDate
        ELSE [valid |-> TRUE,
              t |-> <<civil[1], civil[2], civil[3],
                      sod \div 3600, (sod % 3600) \div 60, sod % 60>>]

\* new Date(s) for a string s
ParseDate(s) ==
    LET st == ParseTokens(DateTokens(s, 1))
    IN  IF ~st.ok \/ DayWrite(st) = <<>> \/ TimeWrite(st) = <<>> \/ TzWrite(st) = <<>>
        THEN InvalidDate
        ELSE DateOfFields(DayWrite(st), TimeWrite(st), TzWrite(st))
--------------------------------------------------------------------------
(* extractDate: input.match(/\d{4}-\d{2}-\d{2} \d{2}:\d{2}:\d{2}/), new Date *)

DateShape == <<"d", "d", "d", "d", "-", "d", "d", "-", "d", "d", " ", "d", "d", ":", "d", "d", ":", "d", "d">>

DateAt(s, i) == /\ i + Len(DateShape) - 1 <= Len(s)
                /\ \A k \in 1..Len(DateShape) :
                      IF DateShape[k] = "d" THEN s[i + k - 1] \in Digits
                      ELSE s[i + k - 1] = DateShape[k]

\* new Date(match[0]) for the token "YYYY-MM-DD HH:MM:SS"
DateOfToken(tok) == ParseDate(tok)

extractDate(input) ==
    IF input = None \/ input = Some(<<>>) THEN None
    ELSE LET s == input[1]
             at == {i \in 1..Len(s) : DateAt(s, i)}
         IN  IF at = {} THEN None
             ELSE Some(DateOfToken(SubSeq(s, MinOf(at), MinOf(at) + Len(DateShape) - 1)))

--------------------------------------------------------------------------
(* categorizeSMS *)

\* categorizeSMS with the "External Transaction Id" rule tried first
categorizeSMSBankFirst(body) ==
    IF body = None \/ body = Some(<<>>) THEN "Unknown"
    ELSE LET b == body[1] IN
      IF Test(b, <<"E", "x", "t", "e", "r", "n", "a", "l", " ", "T", "r", "a", "n", "s", "a", "c", "t", "i", "o", "n", " ", "I", "d">>) THEN "Bank Transfers"
      ELSE IF Test(b, <<"r", "e", "c", "e", "i", "v", "e", "d">>) /\ Test(b, <<"f", "r", "o", "m">>) THEN "Incoming Money"
      ELSE IF Test(b, <<"p", "a", "y", "m", "e", "n", "t", " ", "o", "f">>) /\ Test(b, <<"t", "o">>) THEN "Payments to Code Holders"
      ELSE IF Test(b, <<"t", "r", "a", "n", "s", "f", "e", "r", "r", "e", "d", " ", "t", "o">>) /\ Test(b, <<"f", "r", "o", "m">>) THEN "Transfers to Mobile Numbers"
      ELSE IF Test(b, <<"b", "a", "n", "k", " ", "d", "e", "p", "o", "s", "i", "t">>) THEN "Bank Deposits"
      ELSE IF Test(b, <<"A", "i", "r", "t", "i", "m", "e">>) THEN "Airtime Bill Payments"
      ELSE IF Test(b, <<"C", "a", "s", "h", " ", "P", "o", "w", "e", "r">>) THEN "Cash Power Bill Payments"
      ELSE IF Test(b, <<"b", "y">>) /\ Test(b, <<"o", "n", " ", "y", "o", "u", "r", " ", "M", "O", "M", "O", " ", "a", "c", "c", "o", "u", "n", "t">>)
           THEN "Transactions Initiated by Third Parties"
      ELSE IF Test(b, <<"w", "i", "t", "h", "d", "r", "a", "w", "n">>) /\ Test(b, <<"a", "g", "e", "n", "t">>) THEN "Withdrawals from Agents"
      ELSE IF TestI(b, <<"B", "u", "n", "d", "l", "e", "s", " ", "a", "n", "d", " ", "P", "a", "c", "k", "s">>) \/ TestI(b, <<"i", "n", "t", "e", "r", "n", "e", "t">>) \/ TestI(b, <<"v", "o", "i", "c", "e", " ", "b", "u", "n", "d", "l", "e">>)
           THEN "Internet and Voice Bundle Purchases"
      ELSE "Other"

categorizeSMS(body) ==
    IF body = None \/ body = Some(<<>>) THEN "Unknown"
    ELSE LET b == body[1] IN
      IF Test(b, <<"r", "e", "c", "e", "i", "v", "e", "d">>) /\ Test(b, <<"f", "r", "o", "m">>) THEN "Incoming Money"
      ELSE IF Test(b, <<"p", "a", "y", "m", "e", "n", "t", " ", "o", "f">>) /\ Test(b, <<"t", "o">>) THEN "Payments to Code Holders"
      ELSE IF Test(b, <<"t", "r", "a", "n", "s", "f", "e", "r", "r", "e", "d", " ", "t", "o">>) /\ Test(b, <<"f", "r", "o", "m">>) THEN "Transfers to Mobile Numbers"
      ELSE IF Test(b, <<"b", "a", "n", "k", " ", "d", "e", "p", "o", "s", "i", "t">>) THEN "Bank Deposits"
      ELSE IF Test(b, <<"A", "i", "r", "t", "i", "m", "e">>) THEN "Airtime Bill Payments"
      ELSE IF Test(b, <<"C", "a", "s", "h", " ", "P", "o", "w", "e", "r">>) THEN "Cash Power Bill Payments"
      ELSE IF Test(b, <<"b", "y">>) /\ Test(b, <<"o", "n", " ", "y", "o", "u", "r", " ", "M", "O", "M", "O", " ", "a", "c", "c", "o", "u", "n", "t">>)
           THEN "Transactions Initiated by Third Parties"
      ELSE IF Test(b, <<"w", "i", "t", "h", "d", "r", "a", "w", "n">>) /\ Test(b, <<"a", "g", "e", "n", "t">>) THEN "Withdrawals from Agents"
      ELSE IF Test(b, <<"E", "x", "t", "e", "r", "n", "a", "l", " ", "T", "r", "a", "n", "s", "a", "c", "t", "i", "o", "n", " ", "I", "d">>) THEN "Bank Transfers"
      ELSE IF TestI(b, <<"B", "u", "n", "d", "l", "e", "s", " ", "a", "n", "d", " ", "P", "a", "c", "k", "s">>) \/ TestI(b, <<"i", "n", "t", "e", "r", "n", "e", "t">>) \/ TestI(b, <<"v", "o", "i", "c", "e", " ", "b", "u", "n", "d", "l", "e">>)
           THEN "Internet and Voice Bundle Purchases"
      ELSE "Other"

--------------------------------------------------------------------------
(* extractSenderReceiver *)

\* body.match(/from ([^\(]+) \(/): the group runs from after "from " to the
\* character before the " (" that ends at the first "(" after it
SenderOpen(s, i) == LET opens == {k \in (i + 5)..Len(s) : s[k] = "("}
                    IN  IF opens = {} THEN 0 ELSE MinOf(opens)

SenderAt(s, i) == /\ MatchAt(s, <<"f", "r", "o", "m", " ">>, i)
                  /\ SenderOpen(s, i) >= i + 7
                  /\ s[SenderOpen(s, i) - 1] = " "

matchSender(s) == LET at == {i \in 1..Len(s) : SenderAt(s, i)}
                  IN  IF at = {} THEN None
                      ELSE Some(Trim(SubSeq(s, MinOf(at) + 5, SenderOpen(s, MinOf(at)) - 2)))

\* body.match(/to ([^\d]+) ?(\d+|\()/): the group is greedy over non-digits and
\* gives characters back until " ?" and then a digit run or "(" follow it
ReceiverEnds(s, i) ==
    LET q == i + 3
        r == SpanEnd(s, q, {s[k] : k \in 1..Len(s)} \ Digits)
    IN  {k \in q..r : \/ k = r /\ r < Len(s)
                      \/ k < r /\ s[k + 1] = "("
                      \/ k + 1 < r /\ s[k + 1] = " " /\ s[k + 2] = "("}

ReceiverAt(s, i) == MatchAt(s, <<"t", "o", " ">>, i) /\ ReceiverEnds(s, i) # {}

matchReceiver(s) == LET at == {i \in 1..Len(s) : ReceiverAt(s, i)}
                    IN  IF at = {} THEN None
                        ELSE Some(Trim(SubSeq(s, MinOf(at) + 3, MaxOf(ReceiverEnds(s, MinOf(at))))))

\* extractSenderReceiver with the receiver branch as an "if" of its own that
\* also takes "Incoming Money"
extractSenderReceiverBoth(body, type) ==
    [sender |-> IF type = "Incoming Money" THEN matchSender(body) ELSE None,
     receiver |-> IF type \in {"Incoming Money", "Payments to Code Holders",
                               "Transfers to Mobile Numbers"}
                  THEN matchReceiver(body) ELSE None]

extractSenderReceiver(body, type) ==
    IF type = "Incoming Money"
    THEN [sender |-> matchSender(body), receiver |-> None]
    ELSE IF type \in {"Payments to Code Holders", "Transfers to Mobile Numbers"}
    THEN [sender |-> None, receiver |-> matchReceiver(body)]
    ELSE [sender |-> None, receiver |-> None]

--------------------------------------------------------------------------
(* The labelled fields: label, ":?", "\s*", a captured run of class C *)

\* position of the last character consumed by ":?" after a label ending at e
AfterColon(s, e) == IF e + 1 <= Len(s) /\ s[e + 1] = ":" THEN e + 1 ELSE e

GroupStart(s, e) == SpanEnd(s, AfterColon(s, e) + 1, WhiteSpace) + 1

GroupEnd(s, e, C) == SpanEnd(s, GroupStart(s, e), C)

Group(s, e, C) == SubSeq(s, GroupStart(s, e), GroupEnd(s, e, C))

\* body.match(/Fee (?:was|paid):?\s*([\d,]+) RWF/)
FeeLabelEnd(s, i) == IF MatchAt(s, <<"F", "e", "e", " ", "w", "a", "s">>, i) THEN i + 6
                     ELSE IF MatchAt(s, <<"F", "e", "e", " ", "p", "a", "i", "d">>, i) THEN i + 7
                     ELSE 0

FeeAt(s, i) == /\ FeeLabelEnd(s, i) > 0
               /\ Group(s, FeeLabelEnd(s, i), Digits \cup {","}) # <<>>
               /\ MatchAt(s, <<" ", "R", "W", "F">>, GroupEnd(s, FeeLabelEnd(s, i), Digits \cup {","}) + 1)

feeMatch(s) == LET at == {i \in 1..Len(s) : FeeAt(s, i)}
               IN  IF at = {} THEN None
                   ELSE Some(Group(s, FeeLabelEnd(s, MinOf(at)), Digits \cup {","}))

\* body.match(/balance:?\s*([\d,]+) RWF/i)
BalanceAt(s, i) == /\ MatchAtI(s, <<"b", "a", "l", "a", "n", "c", "e">>, i)
                   /\ Group(s, i + 6, Digits \cup {","}) # <<>>
                   /\ MatchAtI(s, <<" ", "R", "W", "F">>, GroupEnd(s, i + 6, Digits \cup {","}) + 1)

balanceMatch(s) == LET at == {i \in 1..Len(s) : BalanceAt(s, i)}
                   IN  IF at = {} THEN None
                       ELSE Some(Group(s, MinOf(at) + 6, Digits \cup {","}))

\* body.match(/<label>:?\s*(<C>+)/i)
LabelledAt(s, label, C, i) == /\ MatchAtI(s, label, i)
                              /\ Group(s, i + Len(label) - 1, C) # <<>>

labelledMatch(s, label, C) ==
    LET at == {i \in 1..Len(s) : LabelledAt(s, label, C, i)}
    IN  IF at = {} THEN None
        ELSE Some(Group(s, MinOf(at) + Len(label) - 1, C))

\* body.match(/Transaction Id:?\s*(\d+)/i) || body.match(/TxId:?\s*(\d+)/i)
transactionIdMatch(s) ==
    IF labelledMatch(s, <<"T", "r", "a", "n", "s", "a", "c", "t", "i", "o", "n", " ", "I", "d">>, Digits) # None
    THEN labelledMatch(s, <<"T", "r", "a", "n", "s", "a", "c", "t", "i", "o", "n", " ", "I", "d">>, Digits)
    ELSE labelledMatch(s, <<"T", "x", "I", "d">>, Digits)

\* body.match(/External Transaction Id:?\s*([\w-]+)/i)
externalIdMatch(s) == labelledMatch(s, <<"E", "x", "t", "e", "r", "n", "a", "l", " ", "T", "r", "a", "n", "s", "a", "c", "t", "i", "o", "n", " ", "I", "d">>, WordChars \cup {"-"})

--------------------------------------------------------------------------
(* The record built for one message: the body of the map callback up to the
   call of Transaction.create *)

NoBodyProvided == <<"N", "o", " ", "B", "o", "d", "y", " ", "p", "r", "o", "v", "i", "d", "e", "d">>

\* new Date(): the ingestion time
Now == [valid |-> TRUE, t |-> <<2026, 1, 1, 0, 0, 0>>]

\* new Date(sms.readable_date)
DateOfReadable(rd) == ParseDate(rd)

\* sms.body || "No Body provided"
BodyOf(sms) == IF sms.body = None \/ sms.body = Some(<<>>) THEN NoBodyProvided
               ELSE sms.body[1]

\* extractDate(body) || (sms.readable_date ? new Date(sms.readable_date) : new Date())
SmsDate(sms, body) ==
    IF extractDate(Some(body)) # None THEN extractDate(Some(body))[1]
    ELSE IF sms.readable_date # None /\ sms.readable_date # Some(<<>>)
         THEN DateOfReadable(sms.readable_date[1])
         ELSE Now

TransactionOf(sms) ==
    LET body == BodyOf(sms)
        transaction_type == categorizeSMS(Some(body))
        sr == extractSenderReceiver(body, transaction_type)
    IN  [sms_address |-> IF sms.address = None THEN "" ELSE sms.address[1],
         sms_date |-> SmsDate(sms, body),
         sms_type |-> IF sms.type = None \/ sms.type = Some("") THEN "unknown" ELSE sms.type[1],
         sms_body |-> body,
         transaction_type |-> transaction_type,
         amount |-> OrElse(extractAmount(Some(body)), 0),
         currency |-> "RWF",
         sender |-> sr.sender,
         receiver |-> sr.receiver,
         balance |-> IF balanceMatch(body) = None THEN None
                     ELSE Some(parseInt(StripCommas(balanceMatch(body)[1]))),
         fee |-> IF feeMatch(body) = None THEN 0
                 ELSE parseInt(StripCommas(feeMatch(body)[1])),
         transaction_id |-> transactionIdMatch(body),
         external_transaction_id |-> externalIdMatch(body),
         message |-> body,
         readable_date |-> IF sms.readable_date = Some(<<>>) THEN None ELSE sms.readable_date,
         contact_name |-> IF sms.contact_name = Some("") THEN None ELSE sms.contact_name,
         raw_json |-> sms]

--------------------------------------------------------------------------
(* Bounds and inputs *)

\* the batch size of the runs that are checked (process_sms.ts sets 50; every
\* formula is stated in terms of BATCH_SIZE)
BATCH_SIZE == 2

\* the longest archive that is checked
MaxMessages == 4

\* the attributes of one <sms> element (message.$)
Sms(body, rd) == [address |-> Some("M-Money"), body |-> body, type |-> Some("1"),
                  readable_date |-> rd, contact_name |-> Some("(Unknown)")]

BodyIncoming == <<"Y", "o", "u", " ", "h", "a", "v", "e", " ", "r", "e", "c", "e", "i", "v", "e", "d", " ", "2", ",", "0", "0", "0", " ", "R", "W", "F", " ", "f", "r", "o", "m", " ", "J", "a", "n", "e", " ", "S", "m", "i", "t", "h", " ", "(", "*", "0", "1", "3", ")", " ", "a", "t", " ", "2", "0", "2", "4", "-", "0", "5", "-", "1", "0", " ", "1", "6", ":", "3", "0", ":", "5", "1", ".", " ", "Y", "o", "u", "r", " ", "n", "e", "w", " ", "b", "a", "l", "a", "n", "c", "e", ":", "2", "0", "0", "0", " ", "R", "W", "F", ".", " ", "F", "i", "n", "a", "n", "c", "i", "a", "l", " ", "T", "r", "a", "n", "s", "a", "c", "t", "i", "o", "n", " ", "I", "d", ":", " ", "7", "6", "6", "6", ".">>

BodyPayment == <<"T", "x", "I", "d", ":", " ", "7", "3", "2", "1", ".", " ", "Y", "o", "u", "r", " ", "p", "a", "y", "m", "e", "n", "t", " ", "o", "f", " ", "1", ",", "0", "0", "0", " ", "R", "W", "F", " ", "t", "o", " ", "J", "a", "n", "e", " ", "S", "m", "i", "t", "h", " ", "1", "2", "8", "4", "5", " ", "h", "a", "s", " ", "b", "e", "e", "n", " ", "c", "o", "m", "p", "l", "e", "t", "e", "d", " ", "a", "t", " ", "2", "0", "2", "4", "-", "0", "5", "-", "1", "0", " ", "1", "6", ":", "3", "1", ":", "3", "9", ".", " ", "Y", "o", "u", "r", " ", "n", "e", "w", " ", "b", "a", "l", "a", "n", "c", "e", ":", " ", "1", ",", "0", "0", "0", " ", "R", "W", "F", ".", " ", "F", "e", "e", " ", "w", "a", "s", " ", "0", " ", "R", "W", "F", ".">>

BodyTransfer == <<"*", "1", "6", "5", "*", "S", "*", "1", "0", "0", "0", "0", " ", "R", "W", "F", " ", "t", "r", "a", "n", "s", "f", "e", "r", "r", "e", "d", " ", "t", "o", " ", "S", "a", "m", "u", "e", "l", " ", "C", "a", "r", "t", "e", "r", " ", "(", "2", "5", "0", "7", "9", "1", "6", "6", "6", "6", "6", "6", ")", " ", "f", "r", "o", "m", " ", "3", "6", "5", "2", "1", "8", "3", "8", " ", "a", "t", " ", "2", "0", "2", "4", "-", "0", "5", "-", "1", "1", " ", "2", "0", ":", "3", "4", ":", "4", "7", ".", " ", "F", "e", "e", " ", "w", "a", "s", ":", " ", "1", "0", "0", " ", "R", "W", "F", ".", " ", "N", "e", "w", " ", "b", "a", "l", "a", "n", "c", "e", ":", " ", "2", "8", "3", "0", "0", " ", "R", "W", "F", ".">>

BodyDeposit == <<"*", "1", "1", "3", "*", "R", "*", "A", " ", "b", "a", "n", "k", " ", "d", "e", "p", "o", "s", "i", "t", " ", "o", "f", " ", "4", "0", "0", "0", "0", " ", "R", "W", "F", " ", "h", "a", "s", " ", "b", "e", "e", "n", " ", "a", "d", "d", "e", "d", " ", "t", "o", " ", "y", "o", "u", "r", " ", "m", "o", "b", "i", "l", "e", " ", "m", "o", "n", "e", "y", " ", "a", "c", "c", "o", "u", "n", "t", " ", "a", "t", " ", "2", "0", "2", "4", "-", "0", "5", "-", "1", "1", " ", "1", "8", ":", "4", "3", ":", "4", "9", ".", " ", "Y", "o", "u", "r", " ", "N", "E", "W", " ", "B", "A", "L", "A", "N", "C", "E", " ", ":", "4", "0", "4", "0", "0", " ", "R", "W", "F", ".">>

BodyAirtime == <<"A", "i", "r", "t", "i", "m", "e", " ", "t", "o", "p", "u", "p", " ", "o", "f", " ", "5", "0", "0", "R", "W", "F", " ", "d", "o", "n", "e", ".", " ", "F", "E", "E", " ", "P", "A", "I", "D", ":", " ", "1", "0", " ", "R", "W", "F">>

BodyAirtimePayment == <<"*", "1", "6", "2", "*", "T", "x", "I", "d", ":", "1", "3", "9", "2", "*", "S", "*", "Y", "o", "u", "r", " ", "p", "a", "y", "m", "e", "n", "t", " ", "o", "f", " ", "2", "0", "0", "0", " ", "R", "W", "F", " ", "t", "o", " ", "A", "i", "r", "t", "i", "m", "e", " ", "w", "i", "t", "h", " ", "t", "o", "k", "e", "n", " ", "h", "a", "s", " ", "b", "e", "e", "n", " ", "c", "o", "m", "p", "l", "e", "t", "e", "d", ".", " ", "F", "e", "e", " ", "w", "a", "s", " ", "0", " ", "R", "W", "F", ".">>

BodyCashPower == <<"C", "a", "s", "h", " ", "P", "o", "w", "e", "r", " ", "t", "o", "k", "e", "n", " ", "1", "2", "3", "4", " ", "b", "o", "u", "g", "h", "t", " ", "f", "o", "r", " ", "3", ",", "0", "0", "0", " ", "R", "W", "F">>

BodyThirdParty == <<"A", " ", "t", "r", "a", "n", "s", "a", "c", "t", "i", "o", "n", " ", "o", "f", " ", "5", "0", "0", " ", "R", "W", "F", " ", "b", "y", " ", "D", "I", "R", "E", "C", "T", " ", "P", "A", "Y", "M", "E", "N", "T", " ", "o", "n", " ", "y", "o", "u", "r", " ", "M", "O", "M", "O", " ", "a", "c", "c", "o", "u", "n", "t", " ", "w", "a", "s", " ", "c", "o", "m", "p", "l", "e", "t", "e", "d", " ", "a", "t", " ", "2", "0", "2", "4", "-", "0", "5", "-", "1", "4", " ", "0", "9", ":", "0", "0", ":", "0", "0", ".">>

BodyWithdrawal == <<"Y", "o", "u", " ", "A", "b", "e", "b", "e", " ", "h", "a", "v", "e", " ", "v", "i", "a", " ", "a", "g", "e", "n", "t", ":", " ", "A", "g", "e", "n", "t", " ", "S", "o", "p", "h", "i", "a", " ", "(", "2", "5", "0", "7", "9", "0", "7", "7", "7", "7", "7", "7", ")", ",", " ", "w", "i", "t", "h", "d", "r", "a", "w", "n", " ", "2", "0", "0", "0", "0", " ", "R", "W", "F", " ", "a", "t", " ", "2", "0", "2", "4", "-", "0", "5", "-", "2", "6", " ", "0", "2", ":", "1", "0", ":", "2", "7">>

BodyBankTransfer == <<"Y", "o", "u", " ", "h", "a", "v", "e", " ", "s", "e", "n", "t", " ", "5", "0", "0", "0", " ", "R", "W", "F", ".", " ", "E", "x", "t", "e", "r", "n", "a", "l", " ", "T", "r", "a", "n", "s", "a", "c", "t", "i", "o", "n", " ", "I", "d", ":", " ", "a", "b", "-", "1", "2", ".">>

BodyBundle == <<"Y", "e", "l", "l", "o", "!", " ", "Y", "o", "u", " ", "b", "o", "u", "g", "h", "t", " ", "a", "n", " ", "I", "N", "T", "E", "R", "N", "E", "T", " ", "p", "a", "c", "k">>

BodyOther == <<"H", "e", "l", "l", "o", " ", "t", "h", "e", "r", "e">>

BodyIncomingExternal == <<"Y", "o", "u", " ", "h", "a", "v", "e", " ", "r", "e", "c", "e", "i", "v", "e", "d", " ", "1", "0", "0", " ", "R", "W", "F", " ", "f", "r", "o", "m", " ", "B", "a", "n", "k", " ", "X", " ", "(", "1", ")", ".", " ", "E", "x", "t", "e", "r", "n", "a", "l", " ", "T", "r", "a", "n", "s", "a", "c", "t", "i", "o", "n", " ", "I", "d", ":", " ", "9", "9">>

BodyIncomingTo == <<"Y", "o", "u", " ", "h", "a", "v", "e", " ", "r", "e", "c", "e", "i", "v", "e", "d", " ", "5", "0", " ", "R", "W", "F", " ", "f", "r", "o", "m", " ", "A", "l", " ", "(", "1", ")", " ", "s", "e", "n", "t", " ", "t", "o", " ", "B", "o", " ", "7">>

BodyWithdrawnBundle == <<"a", "g", "e", "n", "t", " ", "1", "2", " ", "w", "i", "t", "h", "d", "r", "a", "w", "n", ",", " ", "v", "o", "i", "c", "e", " ", "b", "u", "n", "d", "l", "e">>

BodyBadDate == <<"P", "a", "i", "d", " ", "1", "0", " ", "R", "W", "F", " ", "a", "t", " ", "2", "0", "2", "4", "-", "1", "3", "-", "4", "5", " ", "1", "0", ":", "0", "0", ":", "0", "0">>

BodyShort == <<"r", "e", "c", "e", "i", "v", "e", "d", " ", "5", " ", "R", "W", "F", " ", "f", "r", "o", "m", " ", "A", "l", " ", "(", "1", ")">>

\* a day beyond the end of the month, and the hour 24
BodyRollover == <<"P", "a", "i", "d", " ", "1", "0", " ", "R", "W", "F", " ", "a", "t", " ", "2", "0", "2", "4", "-", "0", "2", "-", "3", "1", " ", "1", "0", ":", "0", "0", ":", "0", "0">>

BodyMidnight == <<"P", "a", "i", "d", " ", "1", "0", " ", "R", "W", "F", " ", "a", "t", " ", "2", "0", "2", "4", "-", "0", "5", "-", "1", "0", " ", "2", "4", ":", "0", "0", ":", "0", "0">>

\* form feeds for white space
BodyFormFeed == <<"P", "a", "i", "d", " ", "5", "\f", "R", "W", "F", " ", "t", "o", " ", "A", "l", "\f", " ", "7", ".", " ", "F", "e", "e", " ", "w", "a", "s", "\f", "5", " ", "R", "W", "F", ".", " ", "b", "a", "l", "a", "n", "c", "e", ":", "\f", "5", " ", "R", "W", "F", ".", " ", "T", "x", "I", "d", ":", "\f", "5">>

Bodies == {BodyIncoming, BodyPayment, BodyTransfer, BodyDeposit, BodyAirtime,
           BodyAirtimePayment, BodyCashPower, BodyThirdParty, BodyWithdrawal,
           BodyBankTransfer, BodyBundle, BodyOther, BodyIncomingExternal,
           BodyIncomingTo, BodyWithdrawnBundle, BodyBadDate, BodyShort, BodyRollover,
           BodyMidnight, BodyFormFeed, <<>>}

ReadableDates == {None, Some(<<>>), Some(<<"1", "0", " ", "M", "a", "y", " ", "2", "0", "2", "4", " ", "4", ":", "3", "0", ":", "5", "8", " ", "P", "M">>), Some(<<"1", "0", " ", "M", "a", "y", " ", "2", "0", "2", "4">>),
                  Some(<<"1", "1", " ", "M", "a", "y", " ", "2", "0", "2", "4", " ", "9", ":", "0", "0", ":", "0", "0", " ", "A", "M">>), Some(<<"2", "0", "2", "4", "-", "0", "5", "-", "1", "0">>), Some(<<"n", "o", "t", " ", "a", " ", "d", "a", "t", "e">>)}

\* the messages the record builder is checked on
BuildInputs == {Sms(b, rd) : b \in {None} \cup {Some(x) : x \in Bodies}, rd \in ReadableDates}

\* the <sms> elements of the archives the orchestrator is run on; None is an
\* element without attributes, whose message.$ is undefined
ArchiveElements == {None,
                    Some(Sms(None, None)),
                    Some(Sms(Some(BodyShort), Some(<<"1", "0", " ", "M", "a", "y", " ", "2", "0", "2", "4">>)))}

RECURSIVE SeqsUpTo(_, _)
SeqsUpTo(S, n) == IF n = 0 THEN {<<>>}
                  ELSE LET shorter == SeqsUpTo(S, n - 1)
                       IN  shorter \cup {Append(s, x) : s \in shorter, x \in S}

\* the archive file: missing, not well-formed XML, or <smses> with its <sms> elements
Archives == {[kind |-> "missing", sms |-> <<>>], [kind |-> "malformed", sms |-> <<>>]}
            \cup {[kind |-> "xml", sms |-> s] : s \in SeqsUpTo(ArchiveElements, MaxMessages)}

--------------------------------------------------------------------------
(* The state *)

VARIABLES
    archive,    \* the archive file (xmlFile)
    pc,         \* where main() is
    messages,   \* result.smses.sms
    i,          \* the loop variable of main()
    task,       \* per message of the archive: the state of its batchPromises entry
    count,      \* main(): count
    ignored,    \* main(): ignored
    log,        \* the warnings of this process (what it appends to logs/unprocessed.log)
    saves,      \* the messages whose record this process handed to Transaction.create,
                \* in call order
    store,      \* per message: the rows the store holds for it
    progress,   \* the progress lines printed
    report,     \* logs/processing-stats.json
    exitCode,   \* the code of process.exit, if it was called
    input,      \* the message given to the record builder
    built,      \* the record it built
    runs,       \* the processes started so far
    srv,        \* where start() and populateDB() are ("none": main() was run on its own)
    sync,       \* the sequelize.sync() that populateDB() starts and does not await
    schema      \* whether the store has its table

vars == <<archive, pc, messages, i, task, count, ignored, log, saves, store,
          progress, report, exitCode, input, built, runs, srv, sync, schema>>

\* xml2js with explicitArray: false, then result.smses.sms: no child gives
\* undefined, one child gives the child itself, more give an array; an element
\* without attributes is the empty string
XmlParse(s) ==
    IF Len(s) = 0 THEN [tag |-> "undefined", items |-> <<>>]
    ELSE IF Len(s) = 1
         THEN IF s[1] = None THEN [tag |-> "string", items |-> <<>>]
                             ELSE [tag |-> "object", items |-> <<>>]
    ELSE [tag |-> "array", items |-> s]

\* messages.length: the length of an array or of a string, undefined on an object
LengthOf(m) == IF m.tag = "object" THEN None ELSE Some(Len(m.items))

\* i < messages.length (a comparison with undefined is false)
LoopCondition(k, m) == LengthOf(m) # None /\ k < LengthOf(m)[1]

\* a slice that is one message too long
BatchOfWide(k, m) == {x \in 1..Len(m.items) : k < x /\ x <= k + BATCH_SIZE + 1}

\* messages.slice(i, i + BATCH_SIZE), as the positions of its messages
BatchOf(k, m) == {x \in 1..Len(m.items) : k < x /\ x <= k + BATCH_SIZE}

\* the callback without its catch: a rejection of Save rejects the entry
ItemOutcomeNoCatch(saveResult) == IF saveResult = "ok" THEN "success"
                                  ELSE IF saveResult = "falsy" THEN "failure"
                                  ELSE "rejected"

\* the callback without its else branch: a falsy result of Save counts as a success
ItemOutcomeTruthy(saveResult) == IF saveResult = "reject" THEN "failure" ELSE "success"

\* the result of one map callback once Save has settled: the try/catch turns a
\* rejection and a falsy result into { success: false }
ItemOutcome(saveResult) == IF saveResult = "ok" THEN "success" ELSE "failure"

\* Promise.race in the place of Promise.all: settled with the first entry
PromiseAllFirst(t, batch) ==
    IF \E m \in batch : t[m] = "rejected" THEN "rejected"
    ELSE IF \E m \in batch : t[m] \in {"success", "failure"} THEN "fulfilled"
    ELSE "pending"

\* Promise.all over the batch: rejected as soon as one entry rejects, fulfilled
\* when every entry is fulfilled
PromiseAll(t, batch) ==
    IF \E m \in batch : t[m] = "rejected" THEN "rejected"
    ELSE IF \A m \in batch : t[m] \in {"success", "failure"} THEN "fulfilled"
    ELSE "pending"

\* a build that also throws when the body holds no amount
BuildThrowsUnmatched(element) ==
    element = None \/ extractAmount(Some(BodyOf(element[1]))) = None

\* lines 167-168: reading message.$.body throws when message.$ is undefined; no
\* other statement of the build throws
BuildThrows(element) == element = None

\* the entries appended to the log, in order, by the messages of positions from..to
\* whose build throws
RECURSIVE BuildFaults(_, _, _)
BuildFaults(items, from, to) ==
    IF from > to THEN <<>>
    ELSE (IF BuildThrows(items[from]) THEN <<[msg |-> from, error |-> "TypeError"]>>
          ELSE <<>>)
         \o BuildFaults(items, from + 1, to)

RECURSIVE SavesOf(_, _, _)
SavesOf(items, from, to) ==
    IF from > to THEN <<>>
    ELSE (IF BuildThrows(items[from]) THEN <<>> ELSE <<from>>) \o SavesOf(items, from + 1, to)

Idle == /\ messages = [tag |-> "undefined", items |-> <<>>]
        /\ i = 0 /\ task = <<>> /\ count = 0 /\ ignored = 0 /\ log = <<>>
        /\ saves = <<>> /\ progress = <<>> /\ report = None
        /\ exitCode = None
        /\ store = [m \in 1..Len(archive.sms) |-> 0]
        /\ runs = 1 /\ sync = "none"

Init == /\ archive \in Archives
        /\ pc = "start"
        /\ srv = "none" /\ schema = FALSE
        /\ Idle
        /\ input = None /\ built = None

--------------------------------------------------------------------------
(* main() *)

\* line 146: the sync main() awaits rejects; the outer catch (lines 289-292)
\* exits, nothing was read and no table was made
MainSyncRejects ==
    /\ pc = "start"
    /\ pc' = "exit"
    /\ exitCode' = Some(1)
    /\ UNCHANGED <<archive, messages, i, task, count, ignored, log, saves, store,
                   progress, report, input, built>>
    /\ UNCHANGED <<runs, srv, sync, schema>>

\* lines 146-154: the sync main() awaits resolves, the table exists; the archive
\* is read, where readFileSync throws on a missing file and the outer catch
\* exits, and its text is handed to the parser, whose promise main() awaits
MainSyncResolves ==
    /\ pc = "start"
    /\ schema' = TRUE
    /\ IF archive.kind = "missing"
       THEN pc' = "exit" /\ exitCode' = Some(1)
       ELSE pc' = "parse" /\ UNCHANGED exitCode
    /\ UNCHANGED <<archive, messages, i, task, count, ignored, log, saves, store,
                   progress, report, input, built>>
    /\ UNCHANGED <<runs, srv, sync>>

\* line 154: parseStringPromise rejects, the text is no XML; the outer catch exits
LoadFails ==
    /\ pc = "parse"
    /\ archive.kind = "malformed"
    /\ pc' = "exit"
    /\ exitCode' = Some(1)
    /\ UNCHANGED <<archive, messages, i, task, count, ignored, log, saves, store,
                   progress, report, input, built>>
    /\ UNCHANGED <<runs, srv, sync, schema>>

\* lines 154-159: parseStringPromise resolves; messages is result.smses.sms and
\* the counters start at 0
Load ==
    /\ pc = "parse"
    /\ archive.kind = "xml"
    /\ messages' = XmlParse(archive.sms)
    /\ task' = [m \in 1..Len(XmlParse(archive.sms).items) |-> "unstarted"]
    /\ count' = 0 /\ ignored' = 0 /\ i' = 0
    /\ pc' = "loop"
    /\ UNCHANGED <<archive, log, saves, store, progress, report, exitCode, input, built>>
    /\ UNCHANGED <<runs, srv, sync, schema>>

\* line 162 with messages undefined: reading messages.length throws a TypeError
LoopThrows ==
    /\ pc = "loop"
    /\ messages.tag = "undefined"
    /\ pc' = "exit"
    /\ exitCode' = Some(1)
    /\ UNCHANGED <<archive, messages, i, task, count, ignored, log, saves, store,
                   progress, report, input, built>>
    /\ UNCHANGED <<runs, srv, sync, schema>>

\* lines 162-248: the next batch is sliced and mapped; every callback runs up to
\* its await of Transaction.create, or to its catch when the build throws
StartBatch ==
    /\ pc = "loop"
    /\ messages.tag # "undefined"
    /\ LoopCondition(i, messages)
    /\ LET batch == BatchOf(i, messages)
           lo == MinOf(batch)
           hi == MaxOf(batch)
       IN  /\ task' = [m \in DOMAIN task |->
                         IF m \in batch
                         THEN IF BuildThrows(messages.items[m]) THEN "failure" ELSE "pending"
                         ELSE task[m]]
           /\ log' = log \o BuildFaults(messages.items, lo, hi)
           /\ saves' = saves \o SavesOf(messages.items, lo, hi)
    /\ pc' = "await"
    /\ UNCHANGED <<archive, messages, i, count, ignored, store, progress, report,
                   exitCode, input, built>>
    /\ UNCHANGED <<runs, srv, sync, schema>>

\* Transaction.create of message m settles, and its callback runs to its return
Resolve(m) ==
    /\ pc = "await"
    /\ task[m] = "pending"
    /\ \E saveResult \in {"ok", "falsy", "reject"} :
         /\ task' = [task EXCEPT ![m] = ItemOutcome(saveResult)]
         /\ store' = [store EXCEPT ![m] = IF saveResult = "ok" THEN @ + 1 ELSE @]
         /\ log' = IF ItemOutcome(saveResult) = "failure"
                   THEN Append(log, [msg |-> m,
                                     error |-> IF saveResult = "falsy"
                                               THEN "Failed to create transaction"
                                               ELSE "SaveError"])
                   ELSE log
    /\ UNCHANGED <<archive, pc, messages, i, count, ignored, saves, progress, report,
                   exitCode, input, built>>
    /\ UNCHANGED <<runs, srv, sync, schema>>

\* lines 251-267: Promise.all settles; the results are counted and the progress
\* line is printed; a rejection would reach the outer catch
CountBatch ==
    /\ pc = "await"
    /\ PromiseAll(task, BatchOf(i, messages)) # "pending"
    /\ LET batch == BatchOf(i, messages) IN
       IF PromiseAll(task, batch) = "rejected"
       THEN /\ pc' = "exit"
            /\ exitCode' = Some(1)
            /\ UNCHANGED <<i, count, ignored, progress>>
       ELSE /\ count' = count + Cardinality({m \in batch : task[m] = "success"})
            /\ ignored' = ignored + Cardinality({m \in batch : task[m] # "success"})
            /\ progress' = Append(progress, i + Cardinality(batch))
            /\ i' = i + BATCH_SIZE
            /\ pc' = "loop"
            /\ UNCHANGED exitCode
    /\ UNCHANGED <<archive, messages, task, log, saves, store, report, input, built>>
    /\ UNCHANGED <<runs, srv, sync, schema>>

\* lines 270-288: the loop is over; the summary is printed and the report written
WriteReport ==
    /\ pc = "loop"
    /\ messages.tag # "undefined"
    /\ ~LoopCondition(i, messages)
    /\ report' = Some([ignored |-> ignored, processed |-> count, total |-> LengthOf(messages)])
    /\ pc' = "done"
    /\ UNCHANGED <<archive, messages, i, task, count, ignored, log, saves, store,
                   progress, exitCode, input, built>>
    /\ UNCHANGED <<runs, srv, sync, schema>>

Next == \/ MainSyncRejects
        \/ MainSyncResolves
        \/ LoadFails
        \/ Load
        \/ LoopThrows
        \/ StartBatch
        \/ \E m \in DOMAIN task : Resolve(m)
        \/ CountBatch
        \/ WriteReport

Spec == Init /\ [][Next]_vars

--------------------------------------------------------------------------
(* main() run again on the same archive and the same store *)

MaxRuns == 2

\* the archives of the runs that are repeated: elements with and without
\* attributes
PlainArchives ==
    {[kind |-> "missing", sms |-> <<>>], [kind |-> "malformed", sms |-> <<>>]}
    \cup {[kind |-> "xml", sms |-> s] :
            s \in SeqsUpTo({None, Some(Sms(Some(BodyShort), Some(<<"1", "0", " ", "M", "a", "y", " ", "2", "0", "2", "4">>)))},
                           MaxMessages)}

\* a new process: what main() and start() hold in memory and what they logged
\* starts afresh, the report file and the store stay
NewProcess ==
    /\ runs < MaxRuns
    /\ runs' = runs + 1
    /\ exitCode' = None
    /\ messages' = [tag |-> "undefined", items |-> <<>>]
    /\ i' = 0 /\ task' = <<>> /\ count' = 0 /\ ignored' = 0 /\ progress' = <<>>
    /\ log' = <<>> /\ saves' = <<>>
    /\ sync' = "none"
    /\ UNCHANGED <<archive, store, report, input, built, schema>>

InitRerun == /\ archive \in PlainArchives
             /\ pc = "start"
             /\ srv = "none" /\ schema = FALSE
             /\ Idle
             /\ input = None /\ built = None

\* main() is called again once it has returned or exited
Rerun ==
    /\ srv = "none"
    /\ pc \in {"done", "exit"}
    /\ NewProcess
    /\ pc' = "start"
    /\ UNCHANGED srv

NextRerun == Next \/ Rerun

SpecRerun == InitRerun /\ [][NextRerun]_vars

--------------------------------------------------------------------------
(* start() and populateDB() *)

RECURSIVE SumTo(_, _)
SumTo(f, n) == IF n = 0 THEN 0 ELSE f[n] + SumTo(f, n - 1)

\* Transaction.count(): the rows of the store
transactionCount == SumTo(store, Len(store))

\* a check that always asks for the ingestion
ShouldIngestAlways(n) == n >= 0

\* transactionCount <= 0
ShouldIngest(n) == n <= 0

\* a start() that does not wait for populateDB()
PopulatedUnawaited(s, p) == s \in {"counting", "skipped", "ingesting"}

\* await populateDB() is over: populateDB() returned after skipping the
\* ingestion or after processSMS() returned
Populated(s, p) == s = "skipped" \/ (s = "ingesting" /\ p = "done")

InitServer == /\ archive \in PlainArchives
              /\ pc = "idle"
              /\ srv = "boot" /\ schema \in BOOLEAN
              /\ Idle
              /\ input = None /\ built = None

\* start() calls populateDB(), which starts sequelize.sync() without awaiting
\* it and runs to its await of Transaction.count()
StartPopulate ==
    /\ srv = "boot"
    /\ sync' = "running"
    /\ srv' = "counting"
    /\ UNCHANGED <<archive, pc, messages, i, task, count, ignored, log, saves, store,
                   progress, report, exitCode, input, built, runs, schema>>

\* the sync started by populateDB() completes: the table exists from now on
SyncCompletes ==
    /\ sync = "running"
    /\ exitCode = None
    /\ sync' = "done"
    /\ schema' = TRUE
    /\ UNCHANGED <<archive, pc, messages, i, task, count, ignored, log, saves, store,
                   progress, report, exitCode, input, built, runs, srv>>

\* Transaction.count() settles: it rejects when the table does not exist yet and
\* the catch exits; else the ingestion is called, or skipped
CountSettles ==
    /\ srv = "counting"
    /\ IF ~schema
       THEN /\ srv' = "exit"
            /\ exitCode' = Some(1)
            /\ UNCHANGED pc
       ELSE IF ShouldIngest(transactionCount)
       THEN /\ srv' = "ingesting"
            /\ pc' = "start"
            /\ UNCHANGED exitCode
       ELSE /\ srv' = "skipped"
            /\ UNCHANGED <<pc, exitCode>>
    /\ UNCHANGED <<archive, messages, i, task, count, ignored, log, saves, store,
                   progress, report, input, built, runs, sync, schema>>

\* populateDB() returns to start(), which calls app.listen
Listen ==
    /\ exitCode = None
    /\ srv \notin {"none", "boot", "listening", "exit"}
    /\ Populated(srv, pc)
    /\ srv' = "listening"
    /\ UNCHANGED <<archive, pc, messages, i, task, count, ignored, log, saves, store,
                   progress, report, exitCode, input, built, runs, sync, schema>>

\* the server is started again, after it was stopped or after it exited
Restart ==
    /\ srv = "listening" \/ (srv # "none" /\ exitCode # None)
    /\ NewProcess
    /\ pc' = "idle"
    /\ srv' = "boot"

NextServer == \/ StartPopulate
              \/ SyncCompletes
              \/ CountSettles
              \/ Next
              \/ Listen
              \/ Restart

SpecServer == InitServer /\ [][NextServer]_vars

--------------------------------------------------------------------------
(* The record builder on its own *)

InitBuild == /\ archive = [kind |-> "missing", sms |-> <<>>]
             /\ pc = "build"
             /\ srv = "none" /\ schema = FALSE
             /\ Idle
             /\ input \in {Some(x) : x \in BuildInputs}
             /\ built = None

\* lines 167-236: the record the callback hands to Transaction.create
Build ==
    /\ pc = "build"
    /\ built' = Some(TransactionOf(input[1]))
    /\ pc' = "built"
    /\ UNCHANGED <<archive, messages, i, task, count, ignored, log, saves, store,
                   progress, report, exitCode, input>>
    /\ UNCHANGED <<runs, srv, sync, schema>>

NextBuild == Build

SpecBuild == InitBuild /\ [][NextBuild]_vars

--------------------------------------------------------------------------
(* Properties of the orchestrator (specification Spec) *)

\* the number of <sms> elements of the archive
ArchiveSize == Len(archive.sms)

\* the batch a message belongs to, counted from 0
BatchIndex(m) == (m - 1) \div BATCH_SIZE

Pending == {m \in DOMAIN task : task[m] = "pending"}

LogEntriesOf(m) == {k \in 1..Len(log) : log[k].msg = m}

\* C1: after a run that reaches its end, for an archive of any size N, the report
\* has processed + ignored = total = N.
C1_CountsSumToArchiveSize ==
    pc = "done" =>
        /\ report # None
        /\ report[1].total = Some(ArchiveSize)
        /\ report[1].processed + report[1].ignored = ArchiveSize

\* C2: a failure of one message (Save rejects, Save resolves falsy, the build
\* throws) is caught at the message: it is logged and counted as ignored, the
\* other messages of its batch and all later batches are still attempted, and the
\* run reaches the report; the run exits only when no message was ever attempted.
C2_FailuresAreIsolated ==
    /\ pc = "exit" => \A m \in DOMAIN task : task[m] = "unstarted"
    /\ \A m \in DOMAIN task : task[m] # "rejected"
    /\ \A m \in DOMAIN task : task[m] = "failure" => Cardinality(LogEntriesOf(m)) = 1
    /\ pc = "await" => \A m \in BatchOf(i, messages) : task[m] # "unstarted"
    /\ pc \in {"loop", "done"} =>
          ignored = Cardinality({m \in DOMAIN task : task[m] = "failure"})
    /\ pc = "done" /\ (\E m \in DOMAIN task : task[m] = "failure") =>
          /\ \A m \in 1..ArchiveSize : task[m] \in {"success", "failure"}
          /\ \A m \in 1..ArchiveSize :
                archive.sms[m] # None => \E k \in 1..Len(saves) : saves[k] = m
          /\ report # None /\ report[1].ignored = ignored

C2_Witness ==
    /\ pc = "done"
    /\ ArchiveSize > BATCH_SIZE
    /\ count > 0
    /\ \E k \in 1..Len(log) : log[k].error = "SaveError" /\ BatchIndex(log[k].msg) = 0
    /\ \E k \in 1..Len(log) : log[k].error = "Failed to create transaction"
    /\ \E k \in 1..Len(log) : log[k].error = "TypeError"
    /\ \E m \in DOMAIN task : BatchIndex(m) = 0 /\ task[m] = "success"

\* C3: batches run one after the other: while a message of a batch is not settled,
\* no message of a later batch has been built or handed to Save.
C3_BatchesAreSequential ==
    \A m1, m2 \in DOMAIN task :
        BatchIndex(m1) < BatchIndex(m2) /\ task[m2] # "unstarted"
            => task[m1] \in {"success", "failure"}

C3_Witness ==
    \E m1, m2 \in DOMAIN task :
        /\ BatchIndex(m1) = 0 /\ BatchIndex(m2) = 1
        /\ task[m2] = "pending"
        /\ task[m1] = "failure"

\* C4: at most BATCH_SIZE Save operations are started and not settled, and the
\* batch being awaited is the next slice of at most BATCH_SIZE consecutive
\* messages of the archive, taken in archive order.
C4_BoundedConcurrency ==
    /\ Cardinality(Pending) <= BATCH_SIZE
    /\ i % BATCH_SIZE = 0
    /\ \A k \in 1..Len(saves) - 1 : saves[k] < saves[k + 1]
    /\ pc = "await" =>
          LET started == {m \in DOMAIN task : task[m] # "unstarted"}
              hi == IF i + BATCH_SIZE < ArchiveSize THEN i + BATCH_SIZE ELSE ArchiveSize
          IN  /\ started = 1..hi
              /\ Pending \subseteq (i + 1)..hi
              /\ hi - i <= BATCH_SIZE

C4_Witness == pc = "await" /\ Cardinality(Pending) = BATCH_SIZE /\ i > 0

\* C5: when a batch is counted, with K of its messages not persisted (in any
\* order of completion), the log has exactly one entry for each of the K and none
\* for the others, ignored grows by K and count by the batch size minus K.
C5_FailuresCountedOnce ==
    [][pc = "await" /\ pc' = "loop" =>
        LET batch == BatchOf(i, messages)
            failed == {m \in batch : store[m] = 0}
        IN  /\ ignored' = ignored + Cardinality(failed)
            /\ count' = count + Cardinality(batch) - Cardinality(failed)
            /\ \A m \in batch :
                  Cardinality(LogEntriesOf(m)) = IF m \in failed THEN 1 ELSE 0
            /\ Cardinality({k \in 1..Len(log) : log[k].msg \in batch}) = Cardinality(failed)
    ]_vars

\* the first batch was counted with all its Saves failed, settled in the reverse
\* of the archive order
C5_Witness ==
    /\ pc = "loop" /\ i = BATCH_SIZE
    /\ ignored = BATCH_SIZE /\ count = 0
    /\ Len(log) = BATCH_SIZE
    /\ log[1].msg = BATCH_SIZE /\ log[BATCH_SIZE].msg = 1
    /\ \A k \in 1..Len(log) : log[k].error # "TypeError"

\* C6: a missing or unparsable archive ends the run with a non-zero exit before
\* any Save and without a report, and nothing else ends a run that way.
C6_OnlyLoadFailureAborts ==
    /\ pc = "exit" /\ archive.kind # "xml" =>
          exitCode = Some(1) /\ saves = <<>> /\ report = None
    /\ pc = "exit" => archive.kind # "xml"

--------------------------------------------------------------------------
(* Properties of the record builder (specification SpecBuild) *)

\* the message has no body: the attribute is missing or empty
LacksBody(sms) == sms.body = None \/ sms.body = Some(<<>>)

\* the rules of the classifier in their order, as predicates on the body
RuleHolds(k, b) ==
    CASE k = 1 -> Test(b, <<"r", "e", "c", "e", "i", "v", "e", "d">>) /\ Test(b, <<"f", "r", "o", "m">>)
      [] k = 2 -> Test(b, <<"p", "a", "y", "m", "e", "n", "t", " ", "o", "f">>) /\ Test(b, <<"t", "o">>)
      [] k = 3 -> Test(b, <<"t", "r", "a", "n", "s", "f", "e", "r", "r", "e", "d", " ", "t", "o">>) /\ Test(b, <<"f", "r", "o", "m">>)
      [] k = 4 -> Test(b, <<"b", "a", "n", "k", " ", "d", "e", "p", "o", "s", "i", "t">>)
      [] k = 5 -> Test(b, <<"A", "i", "r", "t", "i", "m", "e">>)
      [] k = 6 -> Test(b, <<"C", "a", "s", "h", " ", "P", "o", "w", "e", "r">>)
      [] k = 7 -> Test(b, <<"b", "y">>) /\ Test(b, <<"o", "n", " ", "y", "o", "u", "r", " ", "M", "O", "M", "O", " ", "a", "c", "c", "o", "u", "n", "t">>)
      [] k = 8 -> Test(b, <<"w", "i", "t", "h", "d", "r", "a", "w", "n">>) /\ Test(b, <<"a", "g", "e", "n", "t">>)
      [] k = 9 -> Test(b, <<"E", "x", "t", "e", "r", "n", "a", "l", " ", "T", "r", "a", "n", "s", "a", "c", "t", "i", "o", "n", " ", "I", "d">>)
      [] k = 10 -> \E w \in {<<"B", "u", "n", "d", "l", "e", "s", " ", "a", "n", "d", " ", "P", "a", "c", "k", "s">>, <<"i", "n", "t", "e", "r", "n", "e", "t">>, <<"v", "o", "i", "c", "e", " ", "b", "u", "n", "d", "l", "e">>} : TestI(b, w)

RuleCategory == <<"Incoming Money", "Payments to Code Holders",
                  "Transfers to Mobile Numbers", "Bank Deposits",
                  "Airtime Bill Payments", "Cash Power Bill Payments",
                  "Transactions Initiated by Third Parties", "Withdrawals from Agents",
                  "Bank Transfers", "Internet and Voice Bundle Purchases">>

\* C7: the record built for a message without a body has category "Unknown",
\* amount 0 and every optional field null.
C7_NoBodyIsUnknown ==
    pc = "built" /\ LacksBody(input[1]) =>
        /\ built[1].transaction_type = "Unknown"
        /\ built[1].amount = 0
        /\ built[1].sender = None /\ built[1].receiver = None
        /\ built[1].balance = None
        /\ built[1].transaction_id = None
        /\ built[1].external_transaction_id = None

\* C8: for a body that is present, the category is that of the first rule, in the
\* order 1..10, that holds on the body, and "Other" when none holds; a body with
\* both the "Incoming Money" and the "Bank Transfers" trigger is "Incoming Money".
C8_FirstRuleWins ==
    pc = "built" /\ ~LacksBody(input[1]) =>
        LET b == input[1].body[1]
            holding == {k \in 1..10 : RuleHolds(k, b)}
        IN  /\ built[1].transaction_type =
                  IF holding = {} THEN "Other" ELSE RuleCategory[MinOf(holding)]
            /\ RuleHolds(1, b) /\ RuleHolds(9, b) =>
                  built[1].transaction_type = "Incoming Money"

C8_Witness ==
    /\ pc = "built"
    /\ ~LacksBody(input[1])
    /\ RuleHolds(1, input[1].body[1]) /\ RuleHolds(9, input[1].body[1])
    /\ built[1].transaction_type = "Incoming Money"

\* C9: in a built record at most one of sender and receiver is set: sender only
\* for "Incoming Money", receiver only for "Payments to Code Holders" and
\* "Transfers to Mobile Numbers".
C9_SenderReceiverExclusive ==
    pc = "built" =>
        /\ built[1].sender = None \/ built[1].receiver = None
        /\ built[1].sender # None => built[1].transaction_type = "Incoming Money"
        /\ built[1].receiver # None =>
              built[1].transaction_type \in {"Payments to Code Holders",
                                             "Transfers to Mobile Numbers"}

\* an "Incoming Money" record with its sender, built from a body on which the
\* receiver pattern matches as well
C9_Witness ==
    /\ pc = "built"
    /\ built[1].transaction_type = "Incoming Money"
    /\ built[1].sender # None
    /\ matchReceiver(built[1].sms_body) # None

\* C10: sms_date is the date token of the body when one matches, else the parsed
\* readable_date when the attribute is there, else the ingestion time; and it
\* is always a valid timestamp.
C10_DatePriority ==
    pc = "built" =>
        LET b == built[1].sms_body
            rd == input[1].readable_date
            tokens == {k \in 1..Len(b) : DateAt(b, k)}
            d == built[1].sms_date
        IN  /\ tokens # {} =>
                  d = DateOfToken(SubSeq(b, MinOf(tokens), MinOf(tokens) + 18))
            /\ tokens = {} /\ rd # None /\ rd # Some(<<>>) => d = DateOfReadable(rd[1])
            /\ tokens = {} /\ (rd = None \/ rd = Some(<<>>)) => d = Now
            /\ d.valid

--------------------------------------------------------------------------
(* Properties of repeated runs (specification SpecRerun) *)

\* every <sms> element of the archive carries its attributes
WellFormed == \A m \in 1..ArchiveSize : archive.sms[m] # None

\* C11: when main() has run twice on the same archive of N messages without the
\* store being cleared, and no Save failed in either run (nothing was ignored),
\* the store holds 2 * N records as the second run ends
C11_RerunDoublesRecords ==
    [][(/\ srv = "none" /\ runs = 2 /\ pc' = "done" /\ pc # "done" /\ WellFormed
        /\ report # None /\ report[1].ignored = 0 /\ ignored = 0)
           => transactionCount = 2 * ArchiveSize]_vars

\* the same for the archives of two messages or more, which xml2js parses into
\* an array
C11_ArraysDouble ==
    [][(/\ srv = "none" /\ runs = 2 /\ pc' = "done" /\ pc # "done" /\ WellFormed
        /\ report # None /\ report[1].ignored = 0 /\ ignored = 0
        /\ messages.tag = "array")
           => transactionCount = 2 * ArchiveSize]_vars

\* two runs without a failure on an archive of two messages
C11_ArraysWitness ==
    /\ srv = "none" /\ runs = 2 /\ pc = "done" /\ WellFormed /\ ArchiveSize = 2
    /\ transactionCount = 4

--------------------------------------------------------------------------
(* Properties of the report and of the progress lines (specification Spec) *)

\* the progress lines of a run on n messages: min(BATCH_SIZE * k, n) after the
\* k-th batch
ExpectedProgress(n) ==
    [k \in 1..((n + BATCH_SIZE - 1) \div BATCH_SIZE) |->
        IF BATCH_SIZE * k < n THEN BATCH_SIZE * k ELSE n]

\* C12: the report is written once, when the run completes and every batch has
\* resolved, with ignored, processed and total equal to the final counters and to
\* N (the number of messages of a well-formed archive); a progress line follows
\* each batch and reports min(BATCH_SIZE * k, N), so the lines increase strictly
\* and end at N
C12_ReportOnceAfterAllBatches ==
    [][/\ report' # report =>
            /\ report = None /\ pc' = "done"
            /\ \A m \in DOMAIN task : task[m] \in {"success", "failure"}
       /\ progress' # progress =>
            /\ \E m \in DOMAIN task : task[m] # "unstarted"
            /\ progress' = SubSeq(ExpectedProgress(ArchiveSize), 1, Len(progress) + 1)
       /\ (pc' = "done" /\ WellFormed) =>
            /\ report' = Some([ignored |-> ignored', processed |-> count',
                               total |-> Some(ArchiveSize)])
            /\ progress' = ExpectedProgress(ArchiveSize)
            /\ \A k \in 1..(Len(progress') - 1) : progress'[k] < progress'[k + 1]]_vars

\* the same for the archives of two messages or more
C12_ArraysReportOnce ==
    [][/\ report' # report =>
            /\ report = None /\ pc' = "done"
            /\ \A m \in DOMAIN task : task[m] \in {"success", "failure"}
       /\ progress' # progress =>
            progress' = SubSeq(ExpectedProgress(ArchiveSize), 1, Len(progress) + 1)
       /\ (pc' = "done" /\ WellFormed /\ ArchiveSize >= 2) =>
            /\ report' = Some([ignored |-> ignored', processed |-> count',
                               total |-> Some(ArchiveSize)])
            /\ progress' = ExpectedProgress(ArchiveSize)]_vars

--------------------------------------------------------------------------
(* Properties of the startup (specification SpecServer) *)

\* C13: when populateDB() leaves its count, the ingestion is called if and only
\* if the store holds no transaction, and skipped otherwise; over repeated
\* startups main() is never called on a store that holds a record and no
\* message is stored twice
C13_IngestionOnlyOnEmptyStore ==
    [][/\ (srv = "counting" /\ srv' # "counting") =>
            /\ srv' \in {"ingesting", "skipped"}
            /\ srv' = "ingesting" <=> transactionCount <= 0
       /\ (srv = "counting" /\ srv' = "ingesting") => (schema /\ pc' = "start")
       /\ (srv = "counting" /\ srv' = "skipped") =>
            (schema /\ transactionCount > 0 /\ pc' = "idle")
       /\ (pc' = "start" /\ pc # "start") => (srv' = "ingesting" /\ transactionCount = 0)
       /\ pc = "idle" => store' = store
       /\ \A m \in DOMAIN store : store'[m] <= 1]_vars

\* the same for the counts that resolve, that is on a store that has its table
C13_WhenCountResolves ==
    [][/\ (srv = "counting" /\ srv' # "counting" /\ schema) =>
            /\ srv' \in {"ingesting", "skipped"}
            /\ srv' = "ingesting" <=> transactionCount <= 0
       /\ (srv = "counting" /\ srv' = "ingesting") => (schema /\ pc' = "start")
       /\ (srv = "counting" /\ srv' = "skipped") =>
            (schema /\ transactionCount > 0 /\ pc' = "idle")
       /\ (pc' = "start" /\ pc # "start") => (srv' = "ingesting" /\ transactionCount = 0)
       /\ pc = "idle" => store' = store
       /\ \A m \in DOMAIN store : store'[m] <= 1]_vars

\* a second startup skipped the ingestion on the records of the first
C13_Witness ==
    /\ runs = 2 /\ srv = "skipped" /\ pc = "idle"
    /\ transactionCount > 0
    /\ \E m \in DOMAIN store : store[m] = 0

\* main() has returned: every batch was mapped and counted, the report is written
IngestionComplete ==
    /\ pc = "done" /\ report # None
    /\ ~LoopCondition(i, messages)
    /\ \A m \in DOMAIN task : task[m] \in {"success", "failure"}

\* C14: the server listens only once the population is over, that is after
\* the ingestion was skipped on a store that holds records or after main() has
\* completed all its batches; once the process has exited, on a failed count or
\* on a failed ingestion, it never listens
C14_ListenAfterPopulation ==
    [][/\ srv' = "listening" =>
            /\ exitCode' = None
            /\ \/ pc' = "idle" /\ transactionCount' > 0
               \/ IngestionComplete'
       /\ (srv = "counting" /\ ~schema /\ srv' # "counting") => exitCode' = Some(1)
       /\ exitCode # None => (srv' # "listening" /\ (exitCode' # None \/ srv' = "boot"))]_vars

\* the server listens after an ingestion of two batches
C14_Witness ==
    /\ srv = "listening" /\ IngestionComplete
    /\ Len(progress) = 2 /\ transactionCount > 0

--------------------------------------------------------------------------
(* Properties of the failures of a run (specification Spec) *)

\* a message with its attributes on whose body an extractor finds nothing
Unmatched(element) ==
    /\ element # None
    /\ LET b == BodyOf(element[1])
       IN  \/ extractAmount(Some(b)) = None
           \/ extractDate(Some(b)) = None
           \/ feeMatch(b) = None
           \/ balanceMatch(b) = None
           \/ transactionIdMatch(b) = None
           \/ externalIdMatch(b) = None

SaveErrors == {"Failed to create transaction", "SaveError"}

\* C15: an extractor that finds nothing is no failure: the record of such a
\* message is always handed to Save, its only log entries are those of a failed
\* Save, and when Save succeeds it is counted as processed, not as ignored, and
\* has no log entry
C15_UnmatchedIsNoFailure ==
    /\ \A m \in DOMAIN task :
         Unmatched(messages.items[m]) =>
            /\ task[m] # "unstarted" => \E k \in 1..Len(saves) : saves[k] = m
            /\ \A k \in LogEntriesOf(m) : log[k].error \in SaveErrors /\ store[m] = 0
            /\ store[m] >= 1 => (task[m] = "success" /\ LogEntriesOf(m) = {})
    /\ pc = "done" =>
         /\ count = Cardinality({m \in DOMAIN task : task[m] = "success"})
         /\ ignored = Cardinality({m \in DOMAIN task : task[m] = "failure"})

\* a message without a body, on which every extractor finds nothing, was saved
\* and counted as processed
C15_Witness ==
    /\ pc = "done"
    /\ \E m \in DOMAIN task :
         /\ messages.items[m] = Some(Sms(None, None))
         /\ store[m] = 1 /\ task[m] = "success" /\ LogEntriesOf(m) = {}
    /\ count = ArchiveSize /\ ignored = 0

\* the calls of Transaction.create made for message m
SaveCalls(m) == {k \in 1..Len(saves) : saves[k] = m}

\* C17: no message is handed to Save twice, and when a run on a well-formed
\* archive of N >= 1 messages (N = 1 included) completes, every message was
\* handed to Save exactly once
C17_OneSavePerMessage ==
    /\ \A m \in 1..ArchiveSize : Cardinality(SaveCalls(m)) <= 1
    /\ (pc = "done" /\ WellFormed) =>
          \A m \in 1..ArchiveSize : Cardinality(SaveCalls(m)) = 1

\* the same for the archives of two messages or more
C17_ArraysOneSave ==
    /\ \A m \in 1..ArchiveSize : Cardinality(SaveCalls(m)) <= 1
    /\ (pc = "done" /\ WellFormed /\ ArchiveSize >= 2) =>
          \A m \in 1..ArchiveSize : Cardinality(SaveCalls(m)) = 1

\* C18: when a run on a well-formed archive completes, the records it added to
\* the store are as many as count; the messages counted as processed are those
\* whose Save succeeded and the messages counted as ignored are those without a
\* record
C18_CountMatchesStore ==
    (pc = "done" /\ WellFormed) =>
        /\ transactionCount = count
        /\ count = Cardinality({m \in 1..ArchiveSize : store[m] = 1})
        /\ ignored = Cardinality({m \in 1..ArchiveSize : store[m] = 0})
        /\ \A m \in DOMAIN task : task[m] = "success" <=> store[m] = 1

\* the same for the archives of two messages or more, well-formed or not
C18_ArraysCountMatchesStore ==
    (pc = "done" /\ ArchiveSize >= 2) =>
        /\ transactionCount = count
        /\ count = Cardinality({m \in 1..ArchiveSize : store[m] = 1})
        /\ ignored = Cardinality({m \in 1..ArchiveSize : store[m] = 0})
        /\ \A m \in DOMAIN task : task[m] = "success" <=> store[m] = 1

\* C19: a run on a parsable archive stops only when Saves are outstanding or
\* when every batch is processed and the report written; while a Save of the
\* batch is outstanding, neither the count of the batch, nor a later batch, nor
\* the report can go on
C19_RunEndsWithReport ==
    /\ (archive.kind = "xml" /\ pc # "start" /\ Pending = {} /\ ~ENABLED Next) =>
          (pc = "done" /\ report # None
           /\ \A m \in DOMAIN task : task[m] \in {"success", "failure"})
    /\ (pc = "await" /\ Pending # {}) =>
          (~ENABLED CountBatch /\ ~ENABLED StartBatch /\ ~ENABLED WriteReport)

\* main() with every Save settling and every step of main() taken in the end
SpecFair == Spec /\ WF_vars(Next)

\* under SpecFair a run on an archive of one message or more, once its schema
\* sync has resolved, ends with its report
C19_NonEmptyRunsEnd ==
    (archive.kind = "xml" /\ ArchiveSize >= 1 /\ pc = "parse")
        ~> (pc = "done" /\ report # None)

--------------------------------------------------------------------------
(* The order of the sync and of the count at startup (specification SpecServer) *)

\* C20: populateDB() gets the result of its count, and decides on the
\* ingestion, only after the sync it started has completed
C20_CountAfterSync ==
    [][(srv = "counting" /\ srv' # "counting") => sync = "done"]_vars

--------------------------------------------------------------------------
(* Properties of the extracted fields (specification SpecBuild) *)

\* the label "Fee was" or "Fee paid" in any letter case, then an optional colon,
\* whitespace, a numeric token and the currency marker
FeeLabelEndAnyCase(s, j) == IF MatchAtI(s, <<"F", "e", "e", " ", "w", "a", "s">>, j) THEN j + 6
                            ELSE IF MatchAtI(s, <<"F", "e", "e", " ", "p", "a", "i", "d">>, j) THEN j + 7
                            ELSE 0

FeeAtAnyCase(s, j) ==
    /\ FeeLabelEndAnyCase(s, j) > 0
    /\ Group(s, FeeLabelEndAnyCase(s, j), Digits \cup {","}) # <<>>
    /\ MatchAt(s, <<" ", "R", "W", "F">>, GroupEnd(s, FeeLabelEndAnyCase(s, j), Digits \cup {","}) + 1)

\* the fee the text states: the number that follows the first such label, its
\* separators stripped, and 0 when the text has none
StatedFee(s) ==
    LET at == {j \in 1..Len(s) : FeeAtAnyCase(s, j)}
    IN  IF at = {} THEN 0
        ELSE parseInt(StripCommas(Group(s, FeeLabelEndAnyCase(s, MinOf(at)),
                                        Digits \cup {","})))

\* C16: the fee of the built record is the number that follows the label "Fee
\* was" or "Fee paid", written in any letter case, and 0 when the body has no
\* such text
C16_FeeLabelAnyCase ==
    pc = "built" => built[1].fee = StatedFee(BodyOf(input[1]))

\* the same for the bodies that write the label as the pattern does, or not at all
C16_FeeLabelExactCase ==
    (pc = "built" /\ (feeMatch(BodyOf(input[1])) # None \/ StatedFee(BodyOf(input[1])) = 0))
        => built[1].fee = StatedFee(BodyOf(input[1]))

--------------------------------------------------------------------------
(* respond() of src/src/utilities.ts *)

MaxStatus == 599

\* the status argument: a boolean or a number
BooleanStatus(b) == [kind |-> "boolean", b |-> b, n |-> 0]

NumberStatus(n) == [kind |-> "number", b |-> FALSE, n |-> n]

\* the statuses respond() is checked on: true, false and the HTTP status codes
Statuses == {BooleanStatus(b) : b \in BOOLEAN} \cup {NumberStatus(n) : n \in 100..MaxStatus}

\* lines 16-24: true is 200, false is 400, a number is itself
StatusCodeOf(status) ==
    IF status.kind = "boolean" THEN (IF status.b THEN 200 ELSE 400) ELSE status.n

\* line 28: statusCode >= 200 || statusCode < 300
OkOf(statusCode) == statusCode >= 200 \/ statusCode < 300

\* lines 26-28: the status code and the ok flag of the response
respond(status) ==
    [statusCode |-> StatusCodeOf(status), ok |-> OkOf(StatusCodeOf(status))]

InitRespond == /\ archive = [kind |-> "missing", sms |-> <<>>]
               /\ pc = "respond"
               /\ srv = "none" /\ schema = FALSE
               /\ Idle
               /\ input \in {Some(s) : s \in Statuses}
               /\ built = None

\* a controller calls respond() with the status
Respond ==
    /\ pc = "respond"
    /\ built' = Some(respond(input[1]))
    /\ pc' = "responded"
    /\ UNCHANGED <<archive, messages, i, task, count, ignored, log, saves, store,
                   progress, report, exitCode, input, runs, srv, sync, schema>>

NextRespond == Respond

SpecRespond == InitRespond /\ [][NextRespond]_vars

\* C21: for every status given to respond(), the ok flag of the response is
\* true exactly when the status code of the response is in [200, 300)
C21_OkIffSuccessStatus ==
    pc = "responded" =>
        (built[1].ok <=> (200 <= built[1].statusCode /\ built[1].statusCode < 300))

\* what the code does instead: the flag is true for every status
C21_OkAlwaysTrue == pc = "responded" => built[1].ok

=============================================================================
